---- MODULE Spec2Model ----
(***************************************************************************)
(* A model of package utf32 (utf32.go): the UTF-32 -> UTF-8 encoder        *)
(* ConvertUTF32toUTF8, the UTF-8 -> UTF-32 decoder ConvertUTF8toUTF32, the *)
(* three lookup tables and the bound constants, driven by callers that     *)
(* invoke the two conversions (as TestRoundTrip does in utf32_test.go).    *)
(*                                                                         *)
(* A UTF32 value is a Go uint32.  TLC's integers stop at 2^31 - 1, so a    *)
(* UTF32 is modelled as the pair <<hi, lo>> of its two 16-bit halves and   *)
(* every operation on it is computed modulo 2^32 on that pair.             *)
(***************************************************************************)
EXTENDS Integers, Sequences, FiniteSets, TLC

\* ------------------------------------------------------------------------
\* Bounds of the model.

\* The longest code-point sequence handed to the encoder.
MaxCodePoints == 2

\* The most chunks (whole, truncated or malformed characters) concatenated
\* into a byte string handed to the decoder.
MaxChunks == 2

\* ------------------------------------------------------------------------
\* uint32 arithmetic on <<hi, lo>> pairs.

Half == 256 * 256

\* UTF32(n) for a natural number n < 2^31.
U32(n) == <<n \div Half, n % Half>>

\* The natural number a UTF32 below 2^31 stands for.
Val(a) == a[1] * Half + a[2]

\* a + b modulo 2^32.
Add32(a, b) ==
    LET lo == a[2] + b[2]
    IN  <<(a[1] + b[1] + (lo \div Half)) % Half, lo % Half>>

\* a - b modulo 2^32.
Sub32(a, b) ==
    LET borrow == IF a[2] < b[2] THEN 1 ELSE 0
    IN  <<(a[1] - b[1] - borrow + 2 * Half) % Half, (a[2] - b[2] + Half) % Half>>

\* a << 6 modulo 2^32.
Shl6(a) == <<(a[1] * 64 + (a[2] \div 1024)) % Half, (a[2] * 64) % Half>>

\* a >> 6.
Shr6(a) == <<a[1] \div 64, (a[2] \div 64) + (a[1] % 64) * 1024>>

Lt32(a, b) == a[1] < b[1] \/ (a[1] = b[1] /\ a[2] < b[2])

Le32(a, b) == a = b \/ Lt32(a, b)

\* Bitwise and / or of two natural numbers.
RECURSIVE BitAnd(_, _)
BitAnd(a, b) ==
    IF a = 0 \/ b = 0 THEN 0
    ELSE (a % 2) * (b % 2) + 2 * BitAnd(a \div 2, b \div 2)

RECURSIVE BitOr(_, _)
BitOr(a, b) ==
    IF a = 0 THEN b
    ELSE IF b = 0 THEN a
    ELSE (IF a % 2 = 1 \/ b % 2 = 1 THEN 1 ELSE 0) + 2 * BitOr(a \div 2, b \div 2)

\* a[n] of a Go string, slice or array, for an index in range.
At(s, n) == s[n + 1]

InRange(s, n) == 0 <= n /\ n < Len(s)

\* Go's byte(x) of an int x >= 0: the low 8 bits.
Byte(x) == x % 256

\* ------------------------------------------------------------------------
\* Bound and mask constants.

UniSurHighStart == 55296

UniSurLowEnd == 57343

UniMaxLegalUTF32 == 1114111

byteMask == 191

byteMark == 128

\* ------------------------------------------------------------------------
\* State.
\*   The package-level variables of utf32.go, and one frame per goroutine
\*   that calls into the package: the call it is in (op), its position
\*   (pc), the callee's parameter and locals, and the values returned.
\*   The caller keeps the argument of its first call in orig, and memo is
\*   the caller-side record of one earlier call and what it returned.

VARIABLES trailingBytesForUTF8, offsetsFromUTF8, firstByteMark,
          ErrInvalidSource, frame, memo

tables == <<trailingBytesForUTF8, offsetsFromUTF8, firstByteMark, ErrInvalidSource>>

vars == <<trailingBytesForUTF8, offsetsFromUTF8, firstByteMark,
          ErrInvalidSource, frame, memo>>

Procs == DOMAIN frame

\* var trailingBytesForUTF8 = [256]byte{...}: 192 zeros, 32 ones, 16 twos,
\* 8 threes, 4 fours, 4 fives; Go index b is TLA+ index b + 1.
TrailingBytesInit ==
    [n \in 1..256 |->
        IF n - 1 < 192 THEN 0
        ELSE IF n - 1 < 224 THEN 1
        ELSE IF n - 1 < 240 THEN 2
        ELSE IF n - 1 < 248 THEN 3
        ELSE IF n - 1 < 252 THEN 4
        ELSE 5]

\* var offsetsFromUTF8 = [6]UTF32{...}; Go index n is TLA+ index n + 1.
\*   0x00000000 0x00003080 0x000E2080 0x03C82080 0xFA082080 0x82082080
OffsetsInit ==
    << <<0, 0>>, <<0, 12416>>, <<14, 8320>>, <<968, 8320>>,
       <<64008, 8320>>, <<33288, 8320>> >>

\* var firstByteMark = [7]byte{0x00, 0x00, 0xC0, 0xE0, 0xF0, 0xF8, 0xFC};
\* Go index n is TLA+ index n + 1.
FirstByteMarkInit == <<0, 0, 192, 224, 240, 248, 252>>

\* The nil error.
NoError == "nil"

\* A frame outside any call.
IdleFrame ==
    [op |-> "none", pc |-> "idle", stage |-> 0, orig |-> <<>>,
     src |-> <<>>, ret |-> <<>>, ch |-> <<0, 0>>,
     idx |-> 0, rangeIdx |-> 0, bytesToWrite |-> 0, sw |-> 0,
     i |-> 0, j |-> 0, extraBytesToRead |-> 0,
     result |-> [val |-> <<>>, isNil |-> TRUE, err |-> NoError]]

InitOf(procs) ==
    /\ trailingBytesForUTF8 = TrailingBytesInit
    /\ offsetsFromUTF8 = OffsetsInit
    /\ firstByteMark = FirstByteMarkInit
    /\ ErrInvalidSource = "illegal source"
    /\ frame = [p \in procs |-> IdleFrame]
    /\ memo = <<>>

\* What a call returns: a string or slice value, whether the slice is nil,
\* and the error.
Returns(f, val, isNil, err) ==
    [f EXCEPT !.pc = "done", !.result = [val |-> val, isNil |-> isNil, err |-> err]]

\* A run-time panic (an index out of range).
Panics(f) == [f EXCEPT !.pc = "panic"]

\* ------------------------------------------------------------------------
\* ConvertUTF8toUTF32 (utf32.go, lines 121-144).

\* The check made with > instead of >=.
TruncatedOffByOne(i, extra, n) == i + extra > n

\* The check made without the cursor.
TruncatedNoCursor(i, extra, n) == extra >= n

\* if i+int(extraBytesToRead) >= len(src)
Truncated(i, extra, n) == i + extra >= n

\* The shift taken before the addition.
AccumulateShiftFirst(ch, b) == Add32(Shl6(ch), U32(b))

\* ch += UTF32(src[i]); ch <<= 6
Accumulate(ch, b) == Shl6(Add32(ch, U32(b)))

\* ch += UTF32(src[i]) - offsetsFromUTF8[extraBytesToRead]
FinalValue(ch, b, off) == Add32(ch, Sub32(U32(b), off))

\* The check without the surrogate range.
IllegalUTF32NoSurrogates(ch) == Lt32(U32(UniMaxLegalUTF32), ch)

\* ch > UniMaxLegalUTF32 || (ch >= UniSurHighStart && ch <= UniSurLowEnd)
IllegalUTF32(ch) ==
    \/ Lt32(U32(UniMaxLegalUTF32), ch)
    \/ (Le32(U32(UniSurHighStart), ch) /\ Le32(ch, U32(UniSurLowEnd)))

\* The entry of ConvertUTF8toUTF32: ret := []UTF32{}, i := 0.
EnterDecode(f, s) ==
    [f EXCEPT !.op = "decode", !.pc = "dec_loop", !.src = s, !.ret = <<>>,
              !.ch = <<0, 0>>, !.i = 0, !.j = 0, !.extraBytesToRead = 0,
              !.idx = 0, !.rangeIdx = 0, !.bytesToWrite = 0, !.sw = 0]

\* The head of the outer loop: the loop test, the table lookup and the
\* truncation check; past the end, return ret, nil.
DecLoop(p) ==
    LET f == frame[p] IN
    /\ f.pc = "dec_loop"
    /\ frame' = [frame EXCEPT ![p] =
         IF f.i < Len(f.src)
         THEN LET extra == At(trailingBytesForUTF8, At(f.src, f.i)) IN
              IF Truncated(f.i, extra, Len(f.src))
              THEN Returns([f EXCEPT !.extraBytesToRead = extra],
                           <<>>, TRUE, ErrInvalidSource)
              ELSE [f EXCEPT !.extraBytesToRead = extra, !.ch = <<0, 0>>,
                             !.j = 0, !.pc = "dec_trail"]
         ELSE Returns(f, f.ret, FALSE, NoError)]
    /\ UNCHANGED <<tables, memo>>

\* The inner loop without its i++.
DecTrailNoAdvance(p) ==
    LET f == frame[p] IN
    /\ f.pc = "dec_trail"
    /\ f.j < f.extraBytesToRead
    /\ frame' = [frame EXCEPT ![p] =
         IF InRange(f.src, f.i)
         THEN [f EXCEPT !.ch = Shl6(Add32(f.ch, U32(At(f.src, f.i)))),
                        !.j = f.j + 1]
         ELSE Panics(f)]
    /\ UNCHANGED <<tables, memo>>

\* One iteration of the inner loop: add a byte, advance the cursor, shift.
DecTrail(p) ==
    LET f == frame[p] IN
    /\ f.pc = "dec_trail"
    /\ f.j < f.extraBytesToRead
    /\ frame' = [frame EXCEPT ![p] =
         IF InRange(f.src, f.i)
         THEN [f EXCEPT !.ch = Accumulate(f.ch, At(f.src, f.i)),
                        !.i = f.i + 1, !.j = f.j + 1]
         ELSE Panics(f)]
    /\ UNCHANGED <<tables, memo>>

\* After the inner loop: the last byte, the offset, the legality check, the
\* append and the outer loop's i++.
DecLast(p) ==
    LET f == frame[p] IN
    /\ f.pc = "dec_trail"
    /\ f.j >= f.extraBytesToRead
    /\ frame' = [frame EXCEPT ![p] =
         IF InRange(f.src, f.i) /\ InRange(offsetsFromUTF8, f.extraBytesToRead)
         THEN LET c == FinalValue(f.ch, At(f.src, f.i),
                                  At(offsetsFromUTF8, f.extraBytesToRead)) IN
              IF IllegalUTF32(c)
              THEN Returns([f EXCEPT !.ch = c], <<>>, TRUE, ErrInvalidSource)
              ELSE [f EXCEPT !.ch = c, !.ret = Append(f.ret, c),
                             !.i = f.i + 1, !.pc = "dec_loop"]
         ELSE Panics(f)]
    /\ UNCHANGED <<tables, memo>>

\* ------------------------------------------------------------------------
\* ConvertUTF32toUTF8 (utf32.go, lines 79-118) and lookupBytesToWrite.

\* ch >= UniSurHighStart && ch <= UniSurLowEnd
IsSurrogate(ch) == Le32(U32(UniSurHighStart), ch) /\ Le32(ch, U32(UniSurLowEnd))

\* The last range closed with < instead of <=.
lookupBytesToWriteStrictMax(ch) ==
    IF Lt32(ch, U32(128)) THEN 1
    ELSE IF Lt32(ch, U32(2048)) THEN 2
    ELSE IF Lt32(ch, U32(65536)) THEN 3
    ELSE IF Lt32(ch, U32(UniMaxLegalUTF32)) THEN 4
    ELSE -1

\* The first range closed with <= instead of <.
lookupBytesToWriteWideFirst(ch) ==
    IF Le32(ch, U32(128)) THEN 1
    ELSE IF Lt32(ch, U32(2048)) THEN 2
    ELSE IF Lt32(ch, U32(65536)) THEN 3
    ELSE IF Le32(ch, U32(UniMaxLegalUTF32)) THEN 4
    ELSE -1

\* lookupBytesToWrite: the byte count, or -1 with ErrInvalidSource.
lookupBytesToWrite(ch) ==
    IF Lt32(ch, U32(128)) THEN 1
    ELSE IF Lt32(ch, U32(2048)) THEN 2
    ELSE IF Lt32(ch, U32(65536)) THEN 3
    ELSE IF Le32(ch, U32(UniMaxLegalUTF32)) THEN 4
    ELSE -1

\* The continuation byte without the mask.
ContinuationByteNoMask(ch) == Byte(BitOr(ch[2], byteMark))

\* byte((int(ch) | byteMark) & byteMask): the mask clears every bit above
\* bit 7, so only the low half of ch reaches the result.
ContinuationByte(ch) == Byte(BitAnd(BitOr(ch[2], byteMark), byteMask))

\* byte(int(ch) | int(firstByteMark[bytesToWrite])): byte() keeps the low
\* 8 bits, which come from the low half of ch.
LeadByte(ch, mark) == Byte(BitOr(ch[2], mark))

\* for i := 0; i < bytesToWrite; i++ { ret = append(ret, 0) }
Extend(ret, n) == ret \o [x \in 1..n |-> 0]

\* The entry of ConvertUTF32toUTF8: ret := make([]byte, 0, ...), idx := 0.
EnterEncode(f, s) ==
    [f EXCEPT !.op = "encode", !.pc = "enc_loop", !.src = s, !.ret = <<>>,
              !.ch = <<0, 0>>, !.idx = 0, !.rangeIdx = 0, !.bytesToWrite = 0,
              !.sw = 0, !.i = 0, !.j = 0, !.extraBytesToRead = 0]

\* The head of the range loop: the next code point (a copy), the surrogate
\* check, the byte count, and the extension of ret; past the end, return
\* string(ret), nil.
EncLoop(p) ==
    LET f == frame[p] IN
    /\ f.pc = "enc_loop"
    /\ frame' = [frame EXCEPT ![p] =
         IF f.rangeIdx < Len(f.src)
         THEN LET c == At(f.src, f.rangeIdx)
                  n == lookupBytesToWrite(c)
              IN  IF IsSurrogate(c)
                  THEN Returns([f EXCEPT !.ch = c], <<>>, FALSE, ErrInvalidSource)
                  ELSE IF n = -1
                  THEN Returns([f EXCEPT !.ch = c], <<>>, FALSE, ErrInvalidSource)
                  ELSE [f EXCEPT !.ch = c, !.bytesToWrite = n, !.sw = n,
                                 !.ret = Extend(f.ret, n), !.pc = "enc_switch"]
         ELSE Returns(f, f.ret, FALSE, NoError)]
    /\ UNCHANGED <<tables, memo>>

\* The switch shifting the element of src itself instead of the copy ch.
EncContInPlace(p) ==
    LET f == frame[p] IN
    /\ f.pc = "enc_switch"
    /\ f.sw > 1
    /\ frame' = [frame EXCEPT ![p] =
         IF InRange(f.ret, f.idx + f.sw - 1)
         THEN [f EXCEPT !.ret = [f.ret EXCEPT ![f.idx + f.sw] =
                                   Byte(BitAnd(BitOr(f.ch[2], byteMark), byteMask))],
                        !.ch = Shr6(f.ch),
                        !.src = [f.src EXCEPT ![f.rangeIdx + 1] = Shr6(f.ch)],
                        !.sw = f.sw - 1]
         ELSE Panics(f)]
    /\ UNCHANGED <<tables, memo>>

\* case 4, case 3, case 2 of the switch, each falling through to the next:
\* ret[idx+sw-1] = continuation byte; ch >>= 6.
EncCont(p) ==
    LET f == frame[p] IN
    /\ f.pc = "enc_switch"
    /\ f.sw > 1
    /\ frame' = [frame EXCEPT ![p] =
         IF InRange(f.ret, f.idx + f.sw - 1)
         THEN [f EXCEPT !.ret = [f.ret EXCEPT ![f.idx + f.sw] = ContinuationByte(f.ch)],
                        !.ch = Shr6(f.ch), !.sw = f.sw - 1]
         ELSE Panics(f)]
    /\ UNCHANGED <<tables, memo>>

\* case 1 of the switch: the lead byte; then idx += bytesToWrite and the
\* range loop moves on.
EncLead(p) ==
    LET f == frame[p] IN
    /\ f.pc = "enc_switch"
    /\ f.sw <= 1
    /\ frame' = [frame EXCEPT ![p] =
         IF InRange(f.ret, f.idx) /\ InRange(firstByteMark, f.bytesToWrite)
         THEN [f EXCEPT !.ret = [f.ret EXCEPT ![f.idx + 1] =
                                   LeadByte(f.ch, At(firstByteMark, f.bytesToWrite))],
                        !.idx = f.idx + f.bytesToWrite,
                        !.rangeIdx = f.rangeIdx + 1, !.pc = "enc_loop"]
         ELSE Panics(f)]
    /\ UNCHANGED <<tables, memo>>

\* ------------------------------------------------------------------------
\* The inputs of the model.

\* Code points the encoder accepts: the ends of each byte-length range, the
\* neighbours of the surrogate range, and the characters of TestRoundTrip.
LegalCodePoints ==
    {U32(n) : n \in {0, 65, 127, 128, 233, 2047, 2048, 2333, 55295, 57344,
                     65535, 65536, 74565, 1114111}}

\* 32-bit values that are no code point: surrogates, 0x110000, 0x80000000
\* and 0xFFFFFFFF.
IllegalCodePoints ==
    {U32(55296), U32(57343), U32(1114112), <<32768, 0>>, <<65535, 65535>>}

CodePoints == LegalCodePoints \cup IllegalCodePoints

SeqsUpTo(S, n) == UNION {[1..m -> S] : m \in 0..n}

UTF32Inputs == SeqsUpTo(CodePoints, MaxCodePoints)

\* Byte chunks: well-formed characters of 1 to 4 bytes, ...
WellFormedChunks ==
    { <<0>>, <<65>>, <<127>>, <<194, 128>>, <<195, 169>>, <<224, 164, 157>>,
      <<237, 159, 191>>, <<239, 191, 191>>, <<240, 144, 128, 128>>,
      <<240, 146, 141, 133>>, <<244, 143, 191, 191>> }

\* ... and malformed ones: a lone continuation byte, non-shortest forms, an
\* encoded surrogate, values past 0x10FFFF, 5- and 6-byte forms, truncated
\* characters, wrong continuation bytes, the bytes 0xFE and 0xFF.
MalformedChunks ==
    { <<128>>, <<192, 128>>, <<224, 128, 128>>, <<237, 160, 128>>,
      <<237, 191, 191>>, <<244, 144, 128, 128>>, <<248, 136, 128, 128, 128>>,
      <<252, 128, 128, 128, 128, 128>>, <<253, 128, 128, 128, 128, 128>>,
      <<195>>, <<224, 164>>, <<240>>, <<192, 0>>, <<255>>, <<191>>,
      <<224, 0, 0>>, <<247, 191, 191, 191>>, <<252, 0, 0, 0, 0, 0>>,
      <<254, 0, 128, 128, 128, 128>> }

Chunks == WellFormedChunks \cup MalformedChunks

RECURSIVE Flatten(_)
Flatten(ss) == IF ss = <<>> THEN <<>> ELSE Head(ss) \o Flatten(Tail(ss))

UTF8Inputs == {Flatten(cs) : cs \in SeqsUpTo(Chunks, MaxChunks)}

\* The few inputs two concurrent callers draw from.
SmallUTF32Inputs ==
    { <<U32(65)>>, <<U32(233), U32(74565)>>, <<U32(2333), U32(55296)>> }

SmallUTF8Inputs ==
    { <<195, 169>>, <<240, 146, 141, 133, 65>>, <<65, 224, 164>> }

\* ------------------------------------------------------------------------
\* The callers.

\* A goroutine calls ConvertUTF32toUTF8(s).
CallEncode(p, inputs) ==
    /\ frame[p].pc = "idle"
    /\ \E s \in inputs :
         frame' = [frame EXCEPT ![p] =
                     EnterEncode([IdleFrame EXCEPT !.stage = 1, !.orig = s], s)]
    /\ UNCHANGED <<tables, memo>>

\* A goroutine calls ConvertUTF8toUTF32(s).
CallDecode(p, inputs) ==
    /\ frame[p].pc = "idle"
    /\ \E s \in inputs :
         frame' = [frame EXCEPT ![p] =
                     EnterDecode([IdleFrame EXCEPT !.stage = 1, !.orig = s], s)]
    /\ UNCHANGED <<tables, memo>>

\* TestRoundTrip: after a successful ConvertUTF8toUTF32, the caller passes
\* the result to ConvertUTF32toUTF8.
DecodeThenEncode(p) ==
    LET f == frame[p] IN
    /\ f.pc = "done" /\ f.op = "decode" /\ f.stage = 1
    /\ f.result.err = NoError
    /\ frame' = [frame EXCEPT ![p] = EnterEncode([f EXCEPT !.stage = 2], f.result.val)]
    /\ UNCHANGED <<tables, memo>>

\* The round trip the other way: after a successful ConvertUTF32toUTF8, the
\* caller passes the result to ConvertUTF8toUTF32.
EncodeThenDecode(p) ==
    LET f == frame[p] IN
    /\ f.pc = "done" /\ f.op = "encode" /\ f.stage = 1
    /\ f.result.err = NoError
    /\ frame' = [frame EXCEPT ![p] = EnterDecode([f EXCEPT !.stage = 2], f.result.val)]
    /\ UNCHANGED <<tables, memo>>

\* The caller drops the results; the goroutine is free for another call.
Return(p) ==
    /\ frame[p].pc = "done"
    /\ frame' = [frame EXCEPT ![p] = IdleFrame]
    /\ UNCHANGED <<tables, memo>>

\* The caller keeps the call's argument and results for later comparison.
Remember(p) ==
    LET f == frame[p] IN
    /\ f.pc = "done"
    /\ memo' = <<[op |-> f.op, src |-> f.src, result |-> f.result]>>
    /\ frame' = [frame EXCEPT ![p] = IdleFrame]
    /\ UNCHANGED tables

\* One caller, every input, round trips.
Init == InitOf({1})

Next ==
    \/ \E p \in Procs : CallEncode(p, UTF32Inputs)
    \/ \E p \in Procs : CallDecode(p, UTF8Inputs)
    \/ \E p \in Procs : DecLoop(p)
    \/ \E p \in Procs : DecTrail(p)
    \/ \E p \in Procs : DecLast(p)
    \/ \E p \in Procs : EncLoop(p)
    \/ \E p \in Procs : EncCont(p)
    \/ \E p \in Procs : EncLead(p)
    \/ \E p \in Procs : DecodeThenEncode(p)
    \/ \E p \in Procs : EncodeThenDecode(p)
    \/ \E p \in Procs : Return(p)

Spec == Init /\ [][Next]_vars

\* Two callers running concurrently, a few inputs, results remembered.
InitCalls == InitOf({1, 2})

NextCalls ==
    \/ \E p \in Procs : CallEncode(p, SmallUTF32Inputs)
    \/ \E p \in Procs : CallDecode(p, SmallUTF8Inputs)
    \/ \E p \in Procs : DecLoop(p)
    \/ \E p \in Procs : DecTrail(p)
    \/ \E p \in Procs : DecLast(p)
    \/ \E p \in Procs : EncLoop(p)
    \/ \E p \in Procs : EncCont(p)
    \/ \E p \in Procs : EncLead(p)
    \/ \E p \in Procs : Return(p)
    \/ \E p \in Procs : Remember(p)

SpecCalls == InitCalls /\ [][NextCalls]_vars

\* ------------------------------------------------------------------------
\* What the properties are stated with: legal code points, well-formed
\* UTF-8 (the Unicode Standard's table of well-formed byte sequences) and
\* the reference encoding, none of them taken from the code.

\* A value <= 0x10FFFF outside [0xD800, 0xDFFF].
LegalCodePoint(c) ==
    /\ c[1] <= 16
    /\ ~(c[1] = 0 /\ c[2] >= 55296 /\ c[2] <= 57343)

AllLegal(s) == \A n \in 1..Len(s) : LegalCodePoint(s[n])

RECURSIVE WellFormedFrom(_, _)
WellFormedFrom(s, n) ==
    IF n > Len(s) THEN TRUE
    ELSE LET b == s[n]
             In(m, lo, hi) == n + m <= Len(s) /\ s[n + m] >= lo /\ s[n + m] <= hi
             Cont(m) == In(m, 128, 191)
         IN  CASE b <= 127 -> WellFormedFrom(s, n + 1)
               [] b >= 194 /\ b <= 223 -> Cont(1) /\ WellFormedFrom(s, n + 2)
               [] b = 224 -> In(1, 160, 191) /\ Cont(2) /\ WellFormedFrom(s, n + 3)
               [] (b >= 225 /\ b <= 236) \/ b = 238 \/ b = 239 ->
                      Cont(1) /\ Cont(2) /\ WellFormedFrom(s, n + 3)
               [] b = 237 -> In(1, 128, 159) /\ Cont(2) /\ WellFormedFrom(s, n + 3)
               [] b = 240 ->
                      In(1, 144, 191) /\ Cont(2) /\ Cont(3) /\ WellFormedFrom(s, n + 4)
               [] b >= 241 /\ b <= 243 ->
                      Cont(1) /\ Cont(2) /\ Cont(3) /\ WellFormedFrom(s, n + 4)
               [] b = 244 ->
                      In(1, 128, 143) /\ Cont(2) /\ Cont(3) /\ WellFormedFrom(s, n + 4)
               [] OTHER -> FALSE

WellFormedUTF8(s) == WellFormedFrom(s, 1)

\* The characters of a well-formed string: its bytes outside 0x80..0xBF.
CharCount(s) == Cardinality({n \in 1..Len(s) : s[n] < 128 \/ s[n] > 191})

RefLen(v) == IF v < 128 THEN 1 ELSE IF v < 2048 THEN 2 ELSE IF v < 65536 THEN 3 ELSE 4

RefMark(n) == CASE n = 1 -> 0 [] n = 2 -> 192 [] n = 3 -> 224 [] n = 4 -> 240

\* Lead byte first; the byte k places from the end carries bits 6k..6k+5.
RefEncode(v) ==
    LET n == RefLen(v) IN
    [m \in 1..n |->
        IF m = 1 THEN RefMark(n) + (v \div (64 ^ (n - 1)))
        ELSE 128 + ((v \div (64 ^ (n - m))) % 64)]

RECURSIVE RefEncodeSeq(_)
RefEncodeSeq(s) ==
    IF s = <<>> THEN <<>> ELSE RefEncode(Val(Head(s))) \o RefEncodeSeq(Tail(s))

RECURSIVE RefLenSum(_)
RefLenSum(s) == IF s = <<>> THEN 0 ELSE RefLen(Val(Head(s))) + RefLenSum(Tail(s))

\* The character starts of a byte string, walking from 0 by segments of
\* 1 + trailingBytesForUTF8[first byte] bytes; the walk ends at len(s), or
\* at the start of a segment that runs past the end.
RECURSIVE SegStartsFrom(_, _)
SegStartsFrom(s, n) ==
    IF n >= Len(s) THEN <<n>>
    ELSE LET next == n + 1 + At(trailingBytesForUTF8, At(s, n)) IN
         IF next > Len(s) THEN <<n>> ELSE <<n>> \o SegStartsFrom(s, next)

SegStarts(s) == SegStartsFrom(s, 0)

Last(q) == q[Len(q)]

Finished(p, o) == frame[p].pc = "done" /\ frame[p].op = o

Failed(f) == f.result.err = ErrInvalidSource

Succeeded(f) == f.result.err = NoError

\* ------------------------------------------------------------------------
\* The properties.

\* C1 -- round trip: ConvertUTF32toUTF8 succeeds on every sequence of legal
\* code points (the empty one included), and ConvertUTF8toUTF32 of its
\* result succeeds and returns exactly that sequence.
C1_RoundTrip ==
    \A p \in Procs :
        LET f == frame[p] IN
        /\ (Finished(p, "encode") /\ f.stage = 1 /\ AllLegal(f.src))
              => Succeeded(f)
        /\ (Finished(p, "decode") /\ f.stage = 2 /\ AllLegal(f.orig))
              => (Succeeded(f) /\ ~f.result.isNil /\ f.result.val = f.orig)

\* A 4-byte and a 2-byte character encoded, decoded, and come back.
C1_Witness ==
    \E p \in Procs :
        /\ Finished(p, "decode") /\ frame[p].stage = 2
        /\ frame[p].orig = <<U32(74565), U32(233)>>
        /\ frame[p].src = <<240, 146, 141, 133, 195, 169>>
        /\ frame[p].result.val = frame[p].orig

\* C2 -- reverse round trip: on a well-formed UTF-8 string
\* ConvertUTF8toUTF32 succeeds with one code point per character, and
\* ConvertUTF32toUTF8 of that result succeeds and returns the same bytes,
\* of the same length.
C2_ReverseRoundTrip ==
    \A p \in Procs :
        LET f == frame[p] IN
        /\ (Finished(p, "decode") /\ f.stage = 1 /\ WellFormedUTF8(f.src))
              => (Succeeded(f) /\ Len(f.result.val) = CharCount(f.src))
        /\ (Finished(p, "encode") /\ f.stage = 2 /\ WellFormedUTF8(f.orig))
              => /\ Succeeded(f)
                 /\ f.result.val = f.orig
                 /\ Len(f.result.val) = Len(f.orig)
                 /\ Len(f.src) = CharCount(f.orig)

\* A 3-byte and a 4-byte character decoded, encoded, and come back.
C2_Witness ==
    \E p \in Procs :
        /\ Finished(p, "encode") /\ frame[p].stage = 2
        /\ frame[p].orig = <<224, 164, 157, 240, 146, 141, 133>>
        /\ frame[p].src = <<U32(2333), U32(74565)>>
        /\ frame[p].result.val = frame[p].orig

\* C3 -- the encoder fails exactly when some code point is a surrogate or
\* exceeds 0x10FFFF; a failed call returns the empty string, a successful
\* one the nil error.
C3_EncoderFailure ==
    \A p \in Procs :
        LET f == frame[p] IN
        Finished(p, "encode") =>
            /\ Failed(f) <=> ~AllLegal(f.src)
            /\ Failed(f) => (f.result.val = <<>> /\ ~f.result.isNil)
            /\ ~Failed(f) => Succeeded(f)

\* 0x110000 after a valid 4-byte code point: the call fails, empty-handed.
C3_Witness ==
    \E p \in Procs :
        /\ Finished(p, "encode")
        /\ frame[p].src = <<U32(1114111), U32(1114112)>>
        /\ Len(frame[p].ret) = 4
        /\ Failed(frame[p])
        /\ frame[p].result.val = <<>>

\* C4 -- the decoder rejects malformed input: a successful
\* ConvertUTF8toUTF32(b) returns code points whose UTF-8 encoding is b, and
\* every b that is not well-formed UTF-8 yields ErrInvalidSource.
C4_DecoderRejectsMalformed ==
    \A p \in Procs :
        LET f == frame[p] IN
        (Finished(p, "decode") /\ f.stage = 1) =>
            /\ Succeeded(f) => (AllLegal(f.result.val) /\ RefEncodeSeq(f.result.val) = f.src)
            /\ ~WellFormedUTF8(f.src) => Failed(f)

\* The last step of a character: the final byte is added and the offset
\* subtracted.
DecLastStep(p) ==
    /\ frame[p].pc = "dec_trail"
    /\ frame[p].j >= frame[p].extraBytesToRead
    /\ frame'[p] # frame[p]

\* The accumulator plus the final byte is below the offset: the
\* subtraction wraps around 2^32.
Underflows(f) ==
    LET sum == Add32(f.ch, U32(At(f.src, f.i)))
    IN  /\ ~Lt32(sum, f.ch)
        /\ Lt32(sum, At(offsetsFromUTF8, f.extraBytesToRead))

Rejected(f) ==
    /\ f.pc = "done"
    /\ Failed(f)
    /\ f.result.isNil
    /\ f.result.val = <<>>

\* C5 -- the decoder never returns an illegal code point: with the
\* accumulator computed modulo 2^32, a character whose value exceeds
\* 0x10FFFF or is a surrogate, or whose subtraction underflows, makes the
\* call fail; every element of a successful result is legal.
C5_DecoderLegalResults ==
    /\ [](\A p \in Procs :
            (Finished(p, "decode") /\ Succeeded(frame[p]))
                => AllLegal(frame[p].result.val))
    /\ [][\A p \in Procs :
            DecLastStep(p) =>
                /\ ~LegalCodePoint(frame'[p].ch) => Rejected(frame'[p])
                /\ Underflows(frame[p]) => Rejected(frame'[p])
                /\ LegalCodePoint(frame'[p].ch) =>
                       frame'[p].ret = Append(frame[p].ret, frame'[p].ch)]_vars

\* A 6-byte form whose subtraction underflows to 0x7DF7DF80, after one
\* decoded character: rejected.
C5_Witness ==
    \E p \in Procs :
        /\ Finished(p, "decode")
        /\ Len(frame[p].ret) = 1
        /\ frame[p].extraBytesToRead = 5
        /\ frame[p].ch = <<32247, 57216>>
        /\ Rejected(frame[p])

\* C6 -- truncation is rejected atomically: at a character start i with
\* i + trailingBytesForUTF8[src[i]] >= len(src), the call returns
\* ErrInvalidSource and a nil result, whatever was decoded before; a 3-byte
\* lead byte followed by at most one byte fails.
C6_TruncationRejected ==
    /\ [][\A p \in Procs :
            LET f == frame[p] IN
            (/\ f.pc = "dec_loop"
             /\ f.i < Len(f.src)
             /\ f.i + At(trailingBytesForUTF8, At(f.src, f.i)) >= Len(f.src)
             /\ frame'[p] # f)
                => Rejected(frame'[p])]_vars
    /\ [](\A p \in Procs :
            LET f == frame[p] IN
            (/\ Finished(p, "decode")
             /\ Len(f.src) \in {1, 2}
             /\ f.src[1] >= 224 /\ f.src[1] <= 239)
                => Rejected(f))

\* A 3-byte character cut after its second byte, behind a decoded one.
C6_Witness ==
    \E p \in Procs :
        /\ Finished(p, "decode")
        /\ frame[p].src = <<195, 169, 224, 164>>
        /\ frame[p].ret = <<U32(233)>>
        /\ frame[p].i = 2
        /\ Rejected(frame[p])

\* C7 -- no index is out of range: src[i] is read with 0 <= i < len(src),
\* trailingBytesForUTF8 is indexed in 0..255, offsetsFromUTF8 in 0..5,
\* firstByteMark in 1..4, ret within its length; no call panics, and a
\* finished call holds a result or ErrInvalidSource.
C7_NoOutOfRange ==
    \A p \in Procs :
        LET f == frame[p] IN
        /\ f.pc # "panic"
        /\ f.op = "decode" =>
              /\ \A n \in 1..Len(f.src) : f.src[n] \in 0..255
              /\ f.pc = "dec_loop" => (0 <= f.i /\ f.i <= Len(f.src))
              /\ f.pc = "dec_trail" =>
                    /\ InRange(f.src, f.i)
                    /\ f.extraBytesToRead \in 0..5
                    /\ f.j \in 0..f.extraBytesToRead
                    /\ f.i + (f.extraBytesToRead - f.j) < Len(f.src)
        /\ f.op = "encode" =>
              /\ f.pc = "enc_loop" => (0 <= f.rangeIdx /\ f.rangeIdx <= Len(f.src))
              /\ f.pc = "enc_switch" =>
                    /\ InRange(f.src, f.rangeIdx)
                    /\ f.bytesToWrite \in 1..4
                    /\ f.sw \in 1..f.bytesToWrite
                    /\ f.idx >= 0
                    /\ f.idx + f.bytesToWrite = Len(f.ret)
        /\ f.pc = "done" => f.result.err \in {NoError, ErrInvalidSource}

\* The last byte of the input read at the end of a 6-byte form.
C7_Witness ==
    \E p \in Procs :
        /\ frame[p].op = "decode" /\ frame[p].pc = "dec_trail"
        /\ frame[p].extraBytesToRead = 5 /\ frame[p].j = 5
        /\ frame[p].i = Len(frame[p].src) - 1
        /\ Len(frame[p].ret) = 1

\* C8 -- the encoder's output is the reference encoding: the in-order
\* concatenation of each code point's 1 to 4 bytes, lead byte first; its
\* length is the sum of the byte lengths; the lead byte fits in 8 bits
\* unmasked; every continuation byte is in 0x80..0xBF.
C8_EncoderReference ==
    \A p \in Procs :
        LET f == frame[p] IN
        /\ (Finished(p, "encode") /\ Succeeded(f)) =>
              /\ f.result.val = RefEncodeSeq(f.src)
              /\ Len(f.result.val) = RefLenSum(f.src)
              /\ Len(f.result.val) <= 4 * Len(f.src)
        /\ (f.op = "encode" /\ f.pc = "enc_switch") =>
              /\ f.bytesToWrite = RefLen(Val(At(f.src, f.rangeIdx)))
              /\ f.sw = 1 =>
                    /\ f.ch[1] = 0
                    /\ BitOr(f.ch[2], At(firstByteMark, f.bytesToWrite)) < 256
              /\ \A n \in (f.idx + f.sw + 1)..(f.idx + f.bytesToWrite) :
                    f.ret[n] >= 128 /\ f.ret[n] <= 191

\* U+0080 then U+10FFFF: two and four bytes.
C8_Witness ==
    \E p \in Procs :
        /\ Finished(p, "encode")
        /\ frame[p].src = <<U32(128), U32(1114111)>>
        /\ frame[p].result.val = <<194, 128, 244, 143, 191, 191>>

\* C9 -- no shared-state drift: no step of any call, under any
\* interleaving, writes a lookup table or ErrInvalidSource or changes the
\* call's argument; a call returns what an earlier call on the same
\* argument returned.
C9_NoSharedStateDrift ==
    /\ [][/\ tables' = tables
          /\ \A p \in Procs :
                frame[p].pc \notin {"idle", "done"} =>
                    /\ frame'[p].src = frame[p].src
                    /\ frame'[p].orig = frame[p].orig]_vars
    /\ [](/\ trailingBytesForUTF8 = TrailingBytesInit
          /\ offsetsFromUTF8 = OffsetsInit
          /\ firstByteMark = FirstByteMarkInit
          /\ \A p \in Procs :
                LET f == frame[p] IN
                /\ (f.pc = "done" /\ f.stage = 1) => f.src = f.orig
                /\ (f.pc = "done" /\ memo # <<>> /\ memo[1].op = f.op
                                  /\ memo[1].src = f.src)
                      => memo[1].result = f.result)

\* A call finishes on the argument of a remembered call while the other
\* goroutine is in the middle of a conversion.
C9_Witness ==
    \E p, q \in Procs :
        /\ p # q
        /\ frame[p].pc = "done" /\ frame[p].op = "encode"
        /\ memo # <<>> /\ memo[1].op = "encode" /\ memo[1].src = frame[p].src
        /\ Len(frame[p].src) = 2 /\ Succeeded(frame[p])
        /\ frame[q].pc = "dec_trail"

\* C10 -- the decoder's cursor: at every head of the outer loop i is the
\* start of the character numbered len(ret), counting segments of
\* 1 + trailingBytesForUTF8[first byte] bytes from 0, with 0 <= i <=
\* len(src); the cursor never moves back; on success the segments cover
\* the input exactly and the output has one element per segment.
C10_DecoderCursor ==
    \A p \in Procs :
        LET f == frame[p]
            starts == SegStarts(f.src)
        IN  f.op = "decode" =>
              /\ f.pc = "dec_loop" =>
                    /\ Len(f.ret) < Len(starts)
                    /\ f.i = starts[Len(f.ret) + 1]
                    /\ 0 <= f.i /\ f.i <= Len(f.src)
                    /\ Len(f.ret) <= f.i
              /\ f.pc = "dec_trail" =>
                    /\ Len(f.ret) < Len(starts)
                    /\ f.i = starts[Len(f.ret) + 1] + f.j
                    /\ f.j <= f.extraBytesToRead
                    /\ f.extraBytesToRead = At(trailingBytesForUTF8, At(f.src, f.i - f.j))
              /\ (f.pc = "done" /\ Succeeded(f)) =>
                    /\ f.i = Len(f.src)
                    /\ Last(starts) = Len(f.src)
                    /\ Len(f.result.val) = Len(starts) - 1
                    /\ \A n \in 1..(Len(starts) - 1) :
                          starts[n + 1] - starts[n] =
                              1 + At(trailingBytesForUTF8, At(f.src, starts[n]))

\* A 2-byte and a 4-byte character decoded: two segments, six bytes.
C10_Witness ==
    \E p \in Procs :
        /\ Finished(p, "decode")
        /\ frame[p].src = <<195, 169, 240, 146, 141, 133>>
        /\ SegStarts(frame[p].src) = <<0, 2, 6>>
        /\ Len(frame[p].result.val) = 2
        /\ frame[p].i = 6

====
